---- MODULE Spec2Model ----
(***************************************************************************)
(* rjoin (rust-fast-join): a streaming sort-merge join of two delimited    *)
(* text files.                                                             *)
(*                                                                         *)
(*   src/src/splitline.rs   SplitLine: a line and raw pointers to its      *)
(*                          fields                                         *)
(*   src/src/lib.rs         JoinFile (a cursor with one row of lookahead), *)
(*                          join (the merge driver), compare_keys,         *)
(*                          smart_refill, do_output                        *)
(*                                                                         *)
(* A string is a sequence of bytes (naturals).  A SplitLine owns its line  *)
(* at a heap address (base) and holds one raw pointer [ptr, len] per       *)
(* field, as the source does.                                              *)
(*                                                                         *)
(* The specifications:                                                     *)
(*   Spec       join() as written, from its first statement.               *)
(*   MergeSpec  join() from two cursors built with their resolved key      *)
(*              specification already installed (the source installs it    *)
(*              at lib.rs:219-227, after the cursors are built and         *)
(*              primed): the merge driver and the output projector, on     *)
(*              tab-delimited files of full rows without header.           *)
(*   RaggedSpec the same on files that may hold a short row.               *)
(*   AritySpec  the same with key specifications of different lengths.     *)
(*   LoopLiveSpec  join from the entry of its merge loop, running until it *)
(*              ends.                                                      *)
(*   KeyTwiceSpec the same with an order that names the join field twice.  *)
(*   HeaderSpec the same with the header flag set.                         *)
(*   UnitSpec   SplitLine's methods, compare_keys and the methods of a     *)
(*              cursor applied to bounded inputs.                          *)
(***************************************************************************)
EXTENDS Integers, Sequences, FiniteSets, TLC

VARIABLES
    config,   \* JoinConfig (lib.rs:10-17): left, right, output, delim, has_header
    lines,    \* lines[s]: the lines side s's iterator has not yet yielded
    jf,       \* jf[s]: the JoinFile of side s (lib.rs:50-60)
    pc,       \* the position of join() (lib.rs:152-273)
    sink,     \* the rows handed to config.output_fn, oldest first
    unit,     \* UnitSpec: the method under application, its inputs and result
    files,    \* history: files[s] is the key id of every row of side s's file
    written   \* history: written[s] is the fields every row of side s's file
              \* was written from

vars == <<config, lines, jf, pc, sink, unit, files, written>>

----------------------------------------------------------------------------
(* Bounds of the model.                                                    *)

\* Most fields of a line the unit specification splits.
MaxFields == 3
\* Most key values compare_keys is applied to in the unit specification.
MaxArity == 2
\* Most rows of one input file.
MaxRows == 3

\* '\t', the delimiter SplitLine::new is called with (lib.rs:81, 82, 138).
TAB == 9
\* ',', a delimiter given with -t (main.rs:54).
COMMA == 44

Sides == {1, 2}
Other(s) == 3 - s

\* Heap addresses a line buffer can be allocated at (16 bytes apart; no
\* line of the model is that long).
HeapBases == {0, 16, 32}

----------------------------------------------------------------------------
(* The panics of the program, by their messages.  NoPanic is the value of  *)
(* a `panic` field when the method returned.                               *)

PanicNoKeys == "panic: key_fields must have more than zero keys"
PanicNoInputLeft == "panic: No input found on left side"
PanicNoInputRight == "panic: No input found on right side"
PanicIndex == "panic: index out of bounds"
PanicOrder == "panic: invalid OutputOrder, this is a bug."
PanicNoHeader == "panic: no header line"
PanicGnuHeader == "panic: gnudefault order doesn't support --header yet"

Panics ==
    {PanicNoKeys, PanicNoInputLeft, PanicNoInputRight, PanicIndex, PanicOrder,
     PanicNoHeader, PanicGnuHeader}

NoPanic == "returned"

----------------------------------------------------------------------------
(* Strings: byte sequences, compared as Rust's str::cmp compares them.     *)

RECURSIVE StrCmpFrom(_, _, _)
StrCmpFrom(a, b, i) ==
    IF i > Len(a) /\ i > Len(b) THEN "Equal"
    ELSE IF i > Len(a) THEN "Less"
    ELSE IF i > Len(b) THEN "Greater"
    ELSE IF a[i] < b[i] THEN "Less"
    ELSE IF a[i] > b[i] THEN "Greater"
    ELSE StrCmpFrom(a, b, i + 1)

StrCmp(a, b) == StrCmpFrom(a, b, 1)

\* [T]::join(sep): the elements of cols separated by sep.
RECURSIVE StrJoin(_, _)
StrJoin(cols, sep) ==
    IF Len(cols) = 0 THEN << >>
    ELSE IF Len(cols) = 1 THEN cols[1]
    ELSE cols[1] \o sep \o StrJoin(Tail(cols), sep)

----------------------------------------------------------------------------
(* SplitLine (splitline.rs).                                               *)

\* str::split(delim): one [off, len] slice per piece, off counted from the
\* start of the line.  i scans the line (1-based); start is the offset of
\* the piece being scanned.
RECURSIVE SplitFrom(_, _, _, _)
SplitFrom(line, delim, i, start) ==
    IF i > Len(line)
    THEN << [off |-> start, len |-> Len(line) - start] >>
    ELSE IF line[i] = delim
    THEN << [off |-> start, len |-> (i - 1) - start] >>
         \o SplitFrom(line, delim, i + 1, i)
    ELSE SplitFrom(line, delim, i + 1, start)

StrSplit(line, delim) == SplitFrom(line, delim, 1, 0)

\* line.split(delim).map(|x| x.to_owned()).collect(): the pieces as strings.
SplitStrings(line, delim) ==
    LET pieces == StrSplit(line, delim) IN
    [i \in 1..Len(pieces) |->
        SubSeq(line, pieces[i].off + 1, pieces[i].off + pieces[i].len)]

\* SplitLine::new panics on an empty key list.
SplitLineNewPanics(key_fields) == Len(key_fields) = 0

\* SplitLine::new(line, delim, key_fields), the line's buffer being at
\* address base: fields are raw pointers into that buffer.
SplitLineNew(line, delim, key_fields, base) ==
    LET pieces == StrSplit(line, delim) IN
    [ line       |-> line,
      base       |-> base,
      fields     |-> [i \in 1..Len(pieces) |->
                         [ptr |-> base + pieces[i].off, len |-> pieces[i].len]],
      key_fields |-> key_fields ]

\* Whether raw pointer p points into sl's own line buffer.
InStorage(sl, p) ==
    /\ sl.base <= p.ptr
    /\ p.ptr + p.len <= sl.base + Len(sl.line)

\* unsafe { &*ptr }: the bytes the pointer covers.  A pointer outside the
\* SplitLine's own buffer is a dangling read, marked by the byte -1.
Deref(sl, p) ==
    IF InStorage(sl, p)
    THEN SubSeq(sl.line, (p.ptr - sl.base) + 1, (p.ptr - sl.base) + p.len)
    ELSE << -1 >>

\* SplitLine::num_fields
NumFields(sl) == Len(sl.fields)

\* SplitLine::field(index), 0-indexed: self.fields[index] panics when
\* index is out of bounds.
FieldPanics(sl, index) == index >= NumFields(sl)

Field(sl, index) == Deref(sl, sl.fields[index + 1])

\* SplitLine::keys: field(i) for every key index, in key_fields order.
KeysPanics(sl) ==
    \E k \in 1..Len(sl.key_fields) : FieldPanics(sl, sl.key_fields[k])

Keys(sl) == [k \in 1..Len(sl.key_fields) |-> Field(sl, sl.key_fields[k])]

\* SplitLine::fields_except_keys: filter_map over the enumerated fields,
\* dropping index i when key_fields.iter().find(k == i) is Some.
RECURSIVE FieldsExceptKeysFrom(_, _)
FieldsExceptKeysFrom(sl, i) ==
    IF i >= NumFields(sl) THEN << >>
    ELSE IF \E k \in 1..Len(sl.key_fields) : sl.key_fields[k] = i
    THEN FieldsExceptKeysFrom(sl, i + 1)
    ELSE << Deref(sl, sl.fields[i + 1]) >> \o FieldsExceptKeysFrom(sl, i + 1)

\* fields_except_keys dropping only the first key index.
FieldsExceptFirstKey(sl) ==
    FieldsExceptKeysFrom([sl EXCEPT !.key_fields = << Head(sl.key_fields) >>], 0)

FieldsExceptKeys(sl) == FieldsExceptKeysFrom(sl, 0)

\* A clone that copies the field pointers as they are.
SplitLineCloneSamePointers(sl, newbase) ==
    [ line       |-> sl.line,
      base       |-> newbase,
      fields     |-> sl.fields,
      key_fields |-> sl.key_fields ]

\* impl Clone for SplitLine: the line is cloned into a buffer at newbase and
\* every field pointer is rebuilt from its offset in the original buffer.
SplitLineClone(sl, newbase) ==
    [ line       |-> sl.line,
      base       |-> newbase,
      fields     |-> [i \in 1..Len(sl.fields) |->
                         [ptr |-> newbase + (sl.fields[i].ptr - sl.base),
                          len |-> sl.fields[i].len]],
      key_fields |-> sl.key_fields ]

----------------------------------------------------------------------------
(* compare_keys (lib.rs:275-284).                                          *)

\* The loop over 0..left.len(): right[i] panics when right is shorter.
RECURSIVE CompareFrom(_, _, _, _)
CompareFrom(left, right, i, result) ==
    IF i > Len(left) THEN result
    ELSE IF i > Len(right) THEN "panic"
    ELSE LET r == StrCmp(left[i], right[i]) IN
         IF r # "Equal" THEN r ELSE CompareFrom(left, right, i + 1, r)

compare_keys(left, right) == CompareFrom(left, right, 1, "Equal")

----------------------------------------------------------------------------
(* Configuration (lib.rs:10-48).                                           *)

\* OutputField: JoinField, or FileField { file, field } (field 0-indexed).
JoinField == [t |-> "JoinField", file |-> 0, field |-> 0]
FileField(file, field) == [t |-> "FileField", file |-> file, field |-> field]

\* OutputOrder
GnuDefault == [kind |-> "GnuDefault", fields |-> << >>]
Auto == [kind |-> "Auto", fields |-> << >>]
Explicit(fields) == [kind |-> "Explicit", fields |-> fields]

\* The JoinFileConfig of side s.
SideConfig(cfg, s) == IF s = 1 THEN cfg.left ELSE cfg.right

----------------------------------------------------------------------------
(* JoinFile (lib.rs:50-150).  A method is applied to a record m = [jf,     *)
(* lines, ret, panic]: the JoinFile, the lines its iterator still holds,   *)
(* the method's return value and its panic, if any.  A line iterator       *)
(* yields its lines and then None; it yields no read error.  rowIx, nextIx and   *)
(* nread are history fields: the 1-based position in the file of the line  *)
(* held in row and in next_row, and how many lines were read.              *)

\* The address of a new line buffer: one that neither row nor next_row,
\* both still alive, occupies.
FreshBase(j) == CHOOSE b \in HeapBases : b \notin {j.row.base, j.next_row.base}

\* Option<Vec<String>>
None == [some |-> FALSE, v |-> << >>]
Some(v) == [some |-> TRUE, v |-> v]

\* The struct JoinFile::new builds (lib.rs:76-86) around a key list: both
\* rows are SplitLine::new("", '\t', key_fields).
JoinFileStruct(key_fields) ==
    [ eof        |-> FALSE,
      printed    |-> FALSE,
      row        |-> SplitLineNew(<< >>, TAB, key_fields, 0),
      next_row   |-> SplitLineNew(<< >>, TAB, key_fields, 16),
      num_fields |-> 0,
      header     |-> None,
      key_fields |-> key_fields,
      rowIx      |-> 0,
      nextIx     |-> 0,
      nread      |-> 0 ]

\* The key list JoinFile::new passes to SplitLine::new and stores: vec![].
NewKeyFields == << >>

Machine(j, ls) == [jf |-> j, lines |-> ls, ret |-> FALSE, panic |-> NoPanic]

\* JoinFile::read_header (lib.rs:90-96): delim is config.delim, a string of
\* one character (main.rs:55-57).
read_header(m, delim) ==
    IF Len(m.lines) > 0
    THEN [m EXCEPT !.lines = Tail(m.lines),
                   !.jf.header = Some(SplitStrings(Head(m.lines), delim[1]))]
    ELSE [m EXCEPT !.panic = PanicNoHeader]

\* JoinFile::read_line (lib.rs:134-149).
read_line(m) ==
    IF Len(m.lines) > 0
    THEN IF SplitLineNewPanics(m.jf.key_fields)
         THEN [m EXCEPT !.lines = Tail(m.lines), !.panic = PanicNoKeys]
         ELSE [m EXCEPT
                 !.lines = Tail(m.lines),
                 !.jf.next_row = SplitLineNew(Head(m.lines), TAB,
                                              m.jf.key_fields, FreshBase(m.jf)),
                 !.jf.nextIx = m.jf.nread + 1,
                 !.jf.nread = m.jf.nread + 1,
                 !.ret = TRUE]
    ELSE [m EXCEPT !.jf.eof = TRUE, !.ret = FALSE]

\* refill without its test of eof.
refillIgnoringEof(m) ==
    LET moved == [m EXCEPT
                    !.jf.row = SplitLineClone(m.jf.next_row, FreshBase(m.jf)),
                    !.jf.rowIx = m.jf.nextIx,
                    !.jf.printed = FALSE]
    IN [read_line(moved) EXCEPT !.ret = TRUE]

\* refill returning what its read_line returned.
refillReturningRead(m) ==
    IF m.jf.eof
    THEN [m EXCEPT !.ret = FALSE]
    ELSE LET moved == [m EXCEPT
                         !.jf.row = SplitLineClone(m.jf.next_row, FreshBase(m.jf)),
                         !.jf.rowIx = m.jf.nextIx,
                         !.jf.printed = FALSE]
         IN read_line(moved)

\* refill returning true at eof.
refillTrueAtEof(m) ==
    IF m.jf.eof
    THEN [m EXCEPT !.ret = TRUE]
    ELSE LET moved == [m EXCEPT
                         !.jf.row = SplitLineClone(m.jf.next_row, FreshBase(m.jf)),
                         !.jf.rowIx = m.jf.nextIx,
                         !.jf.printed = FALSE]
         IN [read_line(moved) EXCEPT !.ret = TRUE]

\* JoinFile::refill (lib.rs:116-131).
refill(m) ==
    IF m.jf.eof
    THEN [m EXCEPT !.ret = FALSE]
    ELSE LET moved == [m EXCEPT
                         !.jf.row = SplitLineClone(m.jf.next_row, FreshBase(m.jf)),
                         !.jf.rowIx = m.jf.nextIx,
                         !.jf.printed = FALSE]
         IN [read_line(moved) EXCEPT !.ret = TRUE]

\* JoinFile::first_fill (lib.rs:99-113).
first_fill(m) ==
    LET r1 == read_line(m) IN
    IF r1.panic # NoPanic THEN r1
    ELSE IF r1.ret
    THEN LET r2 == refill(r1) IN
         IF r2.panic # NoPanic THEN r2
         ELSE [r2 EXCEPT !.jf.num_fields = NumFields(r2.jf.row)]
    ELSE [r1 EXCEPT !.ret = FALSE]

----------------------------------------------------------------------------
(* smart_refill (lib.rs:384-400) on the two machines: [l, r, ret, panic].  *)

Both(ml, mr, ret, panic) == [l |-> ml, r |-> mr, ret |-> ret, panic |-> panic]

RefillLeft(ml, mr) ==
    LET n == refill(ml) IN Both(n, mr, n.ret, n.panic)

RefillRight(ml, mr) ==
    LET n == refill(mr) IN Both(ml, n, n.ret, n.panic)

\* left.refill() && right.refill()
RefillBoth(ml, mr) ==
    LET n == refill(ml) IN
    IF n.panic # NoPanic \/ ~n.ret THEN Both(n, mr, FALSE, n.panic)
    ELSE RefillRight(n, mr)

smart_refill(ml, mr) ==
    IF ml.jf.eof THEN RefillRight(ml, mr)
    ELSE IF mr.jf.eof THEN RefillLeft(ml, mr)
    ELSE IF KeysPanics(ml.jf.next_row) \/ KeysPanics(mr.jf.next_row)
    THEN Both(ml, mr, FALSE, PanicIndex)
    ELSE LET c == compare_keys(Keys(ml.jf.next_row), Keys(mr.jf.next_row)) IN
         CASE c = "Equal"   -> RefillBoth(ml, mr)
           [] c = "Less"    -> RefillLeft(ml, mr)
           [] c = "Greater" -> RefillRight(ml, mr)
           [] OTHER         -> Both(ml, mr, FALSE, PanicIndex)

----------------------------------------------------------------------------
(* do_output (lib.rs:317-380).                                             *)

\* Joined with the two print flags exchanged.
JoinedFlagsSwapped(file, print_left, print_right) ==
    (file = 1 /\ print_right) \/ (file = 2 /\ print_left)

\* Whether side `file` of a FileField is printed in this row.
Joined(file, print_left, print_right) ==
    (file = 1 /\ print_left) \/ (file = 2 /\ print_right)

\* FileFieldColumn rendering the missing value past a row's last field.
FileFieldColumnMissingWhenShort(cfg, l, r, print_left, print_right, file, field) ==
    LET f == IF file = 1 THEN l ELSE r
        fcfg == IF file = 1 THEN cfg.left ELSE cfg.right
    IN IF Joined(file, print_left, print_right) /\ field < NumFields(f.row)
       THEN Field(f.row, field)
       ELSE fcfg.missing

\* The column of FileField { file, field } (lib.rs:351-368).
FileFieldColumn(cfg, l, r, print_left, print_right, file, field) ==
    LET f == IF file = 1 THEN l ELSE r
        fcfg == IF file = 1 THEN cfg.left ELSE cfg.right
    IN IF Joined(file, print_left, print_right)
       THEN IF field < NumFields(f.row) THEN Field(f.row, field) ELSE << >>
       ELSE fcfg.missing

\* The loop over an Explicit order's fields (lib.rs:345-373).  keys is the
\* local Vec `keys`: v.append(&mut keys) moves its elements out.
RECURSIVE ExplicitColumns(_, _, _, _, _, _, _)
ExplicitColumns(cfg, l, r, print_left, print_right, items, keys) ==
    IF Len(items) = 0 THEN << >>
    ELSE LET item == Head(items) IN
         IF item.t = "JoinField"
         THEN keys \o ExplicitColumns(cfg, l, r, print_left, print_right,
                                      Tail(items), << >>)
         ELSE << FileFieldColumn(cfg, l, r, print_left, print_right,
                                 item.file, item.field) >>
              \o ExplicitColumns(cfg, l, r, print_left, print_right,
                                 Tail(items), keys)

\* The panic of do_output: that of keys() (lib.rs:327), or the Auto arm's
\* (lib.rs:376).
DoOutputPanic(cfg, l, r, print_left, print_right) ==
    IF KeysPanics(IF print_left THEN l.row ELSE r.row) THEN PanicIndex
    ELSE IF cfg.output.kind = "Auto" THEN PanicOrder
    ELSE NoPanic

\* The columns do_output joins (lib.rs:327-377).
OutputColumns(cfg, l, r, print_left, print_right) ==
    LET keys == IF print_left THEN Keys(l.row) ELSE Keys(r.row) IN
    IF cfg.output.kind = "GnuDefault"
    THEN keys
         \o (IF print_left THEN FieldsExceptKeys(l.row) ELSE << >>)
         \o (IF print_right THEN FieldsExceptKeys(r.row) ELSE << >>)
    ELSE ExplicitColumns(cfg, l, r, print_left, print_right,
                         cfg.output.fields, keys)

\* What the sink receives: text is the line handed to output_fn; the other
\* fields record which sides were printed, the rows' positions in their
\* files and the columns before joining.
SinkRow(cfg, l, r, print_left, print_right) ==
    LET cols == OutputColumns(cfg, l, r, print_left, print_right) IN
    [ left  |-> print_left,
      right |-> print_right,
      lix   |-> IF print_left THEN l.rowIx ELSE 0,
      rix   |-> IF print_right THEN r.rowIx ELSE 0,
      cols  |-> cols,
      text  |-> StrJoin(cols, cfg.delim) ]

\* do_output without the assignments to printed.
MarkPrintedSkipped(j, print) == j

\* The printed flags do_output sets (lib.rs:320-325).
MarkPrinted(j, print) == IF print THEN [j EXCEPT !.printed = TRUE] ELSE j

----------------------------------------------------------------------------
(* do_header_output (lib.rs:286-315).                                      *)

\* left_header[*index] and f[field] panic past the header's last field.
HeaderItemPanics(l, r, item) ==
    IF item.t = "JoinField"
    THEN \E k \in 1..Len(l.row.key_fields) :
            l.row.key_fields[k] >= Len(l.header.v)
    ELSE item.field >= Len((IF item.file = 1 THEN l ELSE r).header.v)

\* The panic of do_header_output: the first item's whose index is out of
\* bounds, or that of an order that is not Explicit.
DoHeaderOutputPanic(cfg, l, r) ==
    IF cfg.output.kind # "Explicit" THEN PanicGnuHeader
    ELSE IF \E k \in 1..Len(cfg.output.fields) :
               HeaderItemPanics(l, r, cfg.output.fields[k])
    THEN PanicIndex
    ELSE NoPanic

\* The loop over the Explicit order's fields (lib.rs:293-309).
RECURSIVE HeaderColumns(_, _, _)
HeaderColumns(l, r, items) ==
    IF Len(items) = 0 THEN << >>
    ELSE LET item == Head(items) IN
         (IF item.t = "JoinField"
          THEN [k \in 1..Len(l.row.key_fields) |->
                   l.header.v[l.row.key_fields[k] + 1]]
          ELSE << (IF item.file = 1 THEN l ELSE r).header.v[item.field + 1] >>)
         \o HeaderColumns(l, r, Tail(items))

\* The header line the sink receives: it holds a row of neither side.
HeaderRow(cfg, l, r) ==
    LET cols == HeaderColumns(l, r, cfg.output.fields) IN
    [ left  |-> FALSE,
      right |-> FALSE,
      lix   |-> 0,
      rix   |-> 0,
      cols  |-> cols,
      text  |-> StrJoin(cols, cfg.delim) ]

----------------------------------------------------------------------------
(* The Auto order, made Explicit after priming (lib.rs:168-183).           *)

\* The FileFields of one file: every field index below num_fields that
\* f.row.key_fields does not hold.
RECURSIVE AutoFileFields(_, _, _)
AutoFileFields(file, f, field) ==
    IF field >= f.num_fields THEN << >>
    ELSE IF \E k \in 1..Len(f.row.key_fields) : f.row.key_fields[k] = field
    THEN AutoFileFields(file, f, field + 1)
    ELSE << FileField(file, field) >> \o AutoFileFields(file, f, field + 1)

AutoOrder(l, r) ==
    Explicit(<< JoinField >> \o AutoFileFields(1, l, 0) \o AutoFileFields(2, r, 0))

----------------------------------------------------------------------------
(* Inputs.  A key is one of KeyIds; the key fields of a row hold its       *)
(* bytes, every other field holds the digit of the row's position in its   *)
(* file.  The files of the join specifications are sorted by key.          *)

KeyIds == {1, 2, 3}

\* The key specifications (0-indexed field numbers) of the model.
KeySpecs == { << 0 >>, << 0, 1 >> }

\* The k-th key field of key id, for a key of `arity` fields: "a", "b",
\* "c" for one field; ("a","b") < ("a","c") < ("b","b") < ... for two.
KeyPart(arity, id, k) ==
    IF arity = 1 THEN << 96 + id >>
    ELSE IF k = 1 THEN << 97 + ((id - 1) \div 2) >>
    ELSE << 98 + ((id - 1) % 2) >>

\* The fields of the row at position pos with key id: as many fields as
\* the largest key index needs, and one more.
RowFields(keyspec, id, pos) ==
    LET width == 2 + (CHOOSE m \in 0..8 :
                         /\ \E k \in 1..Len(keyspec) : keyspec[k] = m
                         /\ \A k \in 1..Len(keyspec) : keyspec[k] <= m)
    IN [j \in 1..width |->
          IF \E k \in 1..Len(keyspec) : keyspec[k] = j - 1
          THEN KeyPart(Len(keyspec),
                       id,
                       CHOOSE k \in 1..Len(keyspec) : keyspec[k] = j - 1)
          ELSE << 48 + pos >>]

RowLine(keyspec, id, pos) == StrJoin(RowFields(keyspec, id, pos), << TAB >>)

\* The key ids of a file: at most MaxRows of them, ascending.
SortedIds ==
    UNION { { q \in [1..n -> KeyIds] : \A i \in 1..(n - 1) : q[i] <= q[i + 1] }
            : n \in 0..MaxRows }

FileLines(keyspec, ids) == [i \in 1..Len(ids) |-> RowLine(keyspec, ids[i], i)]

\* The output orders of the model.
OutputOrders ==
    { GnuDefault,
      Auto,
      Explicit(<< JoinField, FileField(1, 1), FileField(2, 1) >>),
      Explicit(<< FileField(2, 0), JoinField, FileField(1, 2) >>) }

\* The JoinConfig main.rs builds: "-" and "?" are the left and right
\* missing values; given is a history field, the output order join was
\* called with.
JoinConfig(la, ra, lks, rks, oo, delim, has_header) ==
    [ left       |-> [all |-> la, key_fields |-> lks, missing |-> << 45 >>],
      right      |-> [all |-> ra, key_fields |-> rks, missing |-> << 63 >>],
      output     |-> oo,
      given      |-> oo,
      delim      |-> delim,
      has_header |-> has_header ]

\* The configurations: the same key specification on both sides, tab as
\* the delimiter, no header.
Configs ==
    { JoinConfig(la, ra, ks, ks, oo, << TAB >>, FALSE)
      : la \in BOOLEAN, ra \in BOOLEAN, ks \in KeySpecs, oo \in OutputOrders }

\* The configurations with a header line in each file.
HeaderConfigs ==
    { JoinConfig(la, ra, ks, ks, oo, << TAB >>, TRUE)
      : la \in BOOLEAN, ra \in BOOLEAN, ks \in KeySpecs, oo \in OutputOrders }

\* The header line of side s's file: one name per field of a full row, "A",
\* "B", .. on the left and "K", "L", .. on the right.
HeaderFields(keyspec, s) ==
    [j \in 1..Len(RowFields(keyspec, 1, 1)) |->
        << (IF s = 1 THEN 64 ELSE 74) + j >>]

HeaderLine(keyspec, s) == StrJoin(HeaderFields(keyspec, s), << TAB >>)

\* A row cut after its first field.
ShortRowFields(keyspec, id, pos) == SubSeq(RowFields(keyspec, id, pos), 1, 1)

\* The key ids of a file that may hold a short row: at most MaxRows of the
\* first two ids, ascending.
RaggedIds == { q \in SortedIds : \A i \in 1..Len(q) : q[i] <= 2 }

\* The output orders and the configurations of the files that may hold a
\* short row: both `all` flags alike.
RaggedOrders ==
    { GnuDefault, Auto, Explicit(<< JoinField, FileField(1, 1), FileField(2, 1) >>) }

RaggedConfigs ==
    { JoinConfig(a, a, ks, ks, oo, << TAB >>, FALSE)
      : a \in BOOLEAN, ks \in KeySpecs, oo \in RaggedOrders }

NoUnit == [op |-> "none"]
NotCreated == [created |-> FALSE]

\* The configuration and the two files join is started on.
InputsInit ==
    /\ config \in Configs
    /\ files \in SortedIds \X SortedIds
    /\ written = [s \in Sides |->
                    [i \in 1..Len(files[s]) |->
                        RowFields(SideConfig(config, s).key_fields, files[s][i], i)]]
    /\ lines = << FileLines(config.left.key_fields, files[1]),
                  FileLines(config.right.key_fields, files[2]) >>
    /\ sink = << >>
    /\ unit = NoUnit

\* The configurations whose two key specifications differ in length, as
\* parse_key_fields (main.rs:90-109) yields them for -l 1 -r 1,2 and for
\* -l 1,2 -r 1.
ArityConfigs ==
    { JoinConfig(la, ra, ks[1], ks[2], oo, << TAB >>, FALSE)
      : la \in BOOLEAN, ra \in BOOLEAN,
        ks \in { << << 0 >>, << 0, 1 >> >>, << << 0, 1 >>, << 0 >> >> },
        oo \in { GnuDefault, Auto } }

\* The configuration and the two files join is started on, the key
\* specifications differing in length.
ArityInputsInit ==
    /\ config \in ArityConfigs
    /\ files \in SortedIds \X SortedIds
    /\ written = [s \in Sides |->
                    [i \in 1..Len(files[s]) |->
                        RowFields(SideConfig(config, s).key_fields, files[s][i], i)]]
    /\ lines = << FileLines(config.left.key_fields, files[1]),
                  FileLines(config.right.key_fields, files[2]) >>
    /\ sink = << >>
    /\ unit = NoUnit

\* The configurations whose Explicit order names the join field twice
\* (-o 0,1.2,0 and -o 0,0).
KeyTwiceOrders ==
    { Explicit(<< JoinField, FileField(1, 1), JoinField >>),
      Explicit(<< JoinField, JoinField >>) }

KeyTwiceConfigs ==
    { JoinConfig(la, ra, ks, ks, oo, << TAB >>, FALSE)
      : la \in BOOLEAN, ra \in BOOLEAN, ks \in KeySpecs, oo \in KeyTwiceOrders }

\* The configuration and the two files join is started on, the order
\* naming the join field twice.
KeyTwiceInputsInit ==
    /\ config \in KeyTwiceConfigs
    /\ files \in SortedIds \X SortedIds
    /\ written = [s \in Sides |->
                    [i \in 1..Len(files[s]) |->
                        RowFields(SideConfig(config, s).key_fields, files[s][i], i)]]
    /\ lines = << FileLines(config.left.key_fields, files[1]),
                  FileLines(config.right.key_fields, files[2]) >>
    /\ sink = << >>
    /\ unit = NoUnit

\* The same on two files of which each may hold one short row, at position
\* short[s] (0: none).
RaggedInputsInit ==
    /\ config \in RaggedConfigs
    /\ files \in RaggedIds \X RaggedIds
    /\ \E short \in (0..MaxRows) \X (0..MaxRows) :
          /\ \A s \in Sides : short[s] <= Len(files[s])
          /\ written = [s \in Sides |->
                [i \in 1..Len(files[s]) |->
                    IF i = short[s]
                    THEN ShortRowFields(SideConfig(config, s).key_fields,
                                        files[s][i], i)
                    ELSE RowFields(SideConfig(config, s).key_fields,
                                   files[s][i], i)]]
    /\ lines = [s \in Sides |->
                  [i \in 1..Len(files[s]) |-> StrJoin(written[s][i], << TAB >>)]]
    /\ sink = << >>
    /\ unit = NoUnit

\* The same on two files that begin with a header line; a file without
\* rows may also be without header line.
HeaderInputsInit ==
    /\ config \in HeaderConfigs
    /\ files \in SortedIds \X SortedIds
    /\ written = [s \in Sides |->
                    [i \in 1..Len(files[s]) |->
                        RowFields(SideConfig(config, s).key_fields, files[s][i], i)]]
    /\ \E hdr \in BOOLEAN \X BOOLEAN :
          /\ \A s \in Sides : Len(files[s]) > 0 => hdr[s]
          /\ lines = [s \in Sides |->
                (IF hdr[s]
                 THEN << HeaderLine(SideConfig(config, s).key_fields, s) >>
                 ELSE << >>)
                \o FileLines(SideConfig(config, s).key_fields, files[s])]
    /\ sink = << >>
    /\ unit = NoUnit

----------------------------------------------------------------------------
(* join (lib.rs:152-273), one action per statement group.  Every           *)
(* configuration of the model gives its key fields and its output fields   *)
(* by index, so KeyField::Named and NamedFileField do not occur and the    *)
(* lookups of lib.rs:196-213 change nothing; both files open.              *)

Panicked == pc \in Panics

\* let left = JoinFile::new(..)?; let right = JoinFile::new(..)?
\* (lib.rs:153-154): the struct literal evaluates SplitLine::new on the
\* key list NewKeyFields.
JoinFileNew ==
    /\ pc \in {"new_left", "new_right"}
    /\ LET s == IF pc = "new_left" THEN 1 ELSE 2 IN
       IF SplitLineNewPanics(NewKeyFields)
       THEN /\ pc' = PanicNoKeys
            /\ UNCHANGED jf
       ELSE /\ jf' = [jf EXCEPT ![s] = JoinFileStruct(NewKeyFields)]
            /\ pc' = IF s = 1 THEN "new_right" ELSE "header"
    /\ UNCHANGED <<config, lines, sink, unit, files, written>>

\* if config.has_header { left.read_header(..); right.read_header(..) }
\* (lib.rs:156-159).
ReadHeaders ==
    /\ pc = "header"
    /\ IF ~config.has_header
       THEN pc' = "fill_left" /\ UNCHANGED <<lines, jf>>
       ELSE LET ml == read_header(Machine(jf[1], lines[1]), config.delim)
                mr == read_header(Machine(jf[2], lines[2]), config.delim)
            IN IF ml.panic # NoPanic
               THEN pc' = ml.panic /\ UNCHANGED <<lines, jf>>
               ELSE IF mr.panic # NoPanic
               THEN /\ pc' = mr.panic
                    /\ jf' = << ml.jf, jf[2] >>
                    /\ lines' = << ml.lines, lines[2] >>
               ELSE /\ pc' = "fill_left"
                    /\ jf' = << ml.jf, mr.jf >>
                    /\ lines' = << ml.lines, mr.lines >>
    /\ UNCHANGED <<config, sink, unit, files, written>>

\* left.first_fill() / right.first_fill() and their panics (lib.rs:161-166).
FirstFill ==
    /\ pc \in {"fill_left", "fill_right"}
    /\ LET s == IF pc = "fill_left" THEN 1 ELSE 2
           m == first_fill(Machine(jf[s], lines[s]))
       IN /\ lines' = [lines EXCEPT ![s] = m.lines]
          /\ IF m.panic # NoPanic
             THEN pc' = m.panic /\ UNCHANGED jf
             ELSE /\ jf' = [jf EXCEPT ![s] = m.jf]
                  /\ pc' = IF ~m.ret
                           THEN (IF s = 1 THEN PanicNoInputLeft ELSE PanicNoInputRight)
                           ELSE (IF s = 1 THEN "fill_right" ELSE "auto")
    /\ UNCHANGED <<config, sink, unit, files, written>>

\* if let OutputOrder::Auto = config.output { .. } (lib.rs:170-183).
ResolveAuto ==
    /\ pc = "auto"
    /\ config' = IF config.output.kind = "Auto"
                 THEN [config EXCEPT !.output = AutoOrder(jf[1], jf[2])]
                 ELSE config
    /\ pc' = "header_out"
    /\ UNCHANGED <<lines, jf, sink, unit, files, written>>

\* if config.has_header { .. do_header_output(&config, left, right) }
\* (lib.rs:187-217).
HeaderOutput ==
    /\ pc = "header_out"
    /\ IF ~config.has_header
       THEN pc' = "keys" /\ UNCHANGED sink
       ELSE IF DoHeaderOutputPanic(config, jf[1], jf[2]) # NoPanic
       THEN pc' = DoHeaderOutputPanic(config, jf[1], jf[2]) /\ UNCHANGED sink
       ELSE /\ pc' = "keys"
            /\ sink' = Append(sink, HeaderRow(config, jf[1], jf[2]))
    /\ UNCHANGED <<config, lines, jf, unit, files, written>>

\* f.key_fields = f.config.key_fields ... (lib.rs:220-227).
PopulateKeys ==
    /\ pc = "keys"
    /\ jf' = [s \in Sides |->
                [jf[s] EXCEPT !.key_fields = SideConfig(config, s).key_fields]]
    /\ pc' = "loop"
    /\ UNCHANGED <<config, lines, sink, unit, files, written>>

\* while todo { match compare_keys(&left.row.keys(), &right.row.keys()) ..
\* (lib.rs:231-232): the scrutinee.
Compare ==
    /\ pc = "loop"
    /\ pc' = IF KeysPanics(jf[1].row) \/ KeysPanics(jf[2].row)
             THEN PanicIndex
             ELSE LET c == compare_keys(Keys(jf[1].row), Keys(jf[2].row)) IN
                  IF c = "panic" THEN PanicIndex ELSE c
    /\ UNCHANGED <<config, lines, jf, sink, unit, files, written>>

\* Ordering::Equal => { do_output(.., true, true); todo = smart_refill(..) }
ArmEqual ==
    /\ pc = "Equal"
    /\ IF DoOutputPanic(config, jf[1], jf[2], TRUE, TRUE) # NoPanic
       THEN /\ pc' = DoOutputPanic(config, jf[1], jf[2], TRUE, TRUE)
            /\ UNCHANGED <<lines, jf, sink>>
       ELSE LET sr == smart_refill(Machine(MarkPrinted(jf[1], TRUE), lines[1]),
                                   Machine(MarkPrinted(jf[2], TRUE), lines[2]))
            IN /\ sink' = Append(sink, SinkRow(config, jf[1], jf[2], TRUE, TRUE))
               /\ jf' = << sr.l.jf, sr.r.jf >>
               /\ lines' = << sr.l.lines, sr.r.lines >>
               /\ pc' = IF sr.panic # NoPanic THEN sr.panic
                        ELSE IF sr.ret THEN "loop" ELSE "flush"
    /\ UNCHANGED <<config, unit, files, written>>

\* The arm of the side s whose key is smaller (lib.rs:237-248): Less is
\* the left side's, Greater the right side's.
ArmSmaller(s) ==
    LET pl == (s = 1)
        pr == (s = 2)
        emit == SideConfig(config, s).all /\ ~jf[s].printed
    IN IF emit /\ DoOutputPanic(config, jf[1], jf[2], pl, pr) # NoPanic
       THEN /\ pc' = DoOutputPanic(config, jf[1], jf[2], pl, pr)
            /\ UNCHANGED <<lines, jf, sink>>
       ELSE LET m == refill(Machine(MarkPrinted(jf[s], emit), lines[s])) IN
            /\ sink' = IF emit
                       THEN Append(sink, SinkRow(config, jf[1], jf[2], pl, pr))
                       ELSE sink
            /\ jf' = [jf EXCEPT ![s] = m.jf]
            /\ lines' = [lines EXCEPT ![s] = m.lines]
            /\ pc' = IF m.panic # NoPanic THEN m.panic
                     ELSE IF m.ret THEN "loop" ELSE "flush"

ArmLess ==
    /\ pc = "Less"
    /\ ArmSmaller(1)
    /\ UNCHANGED <<config, unit, files, written>>

ArmGreater ==
    /\ pc = "Greater"
    /\ ArmSmaller(2)
    /\ UNCHANGED <<config, unit, files, written>>

\* Print the last if all (lib.rs:253-258).
Flush ==
    /\ pc = "flush"
    /\ LET doL == config.left.all /\ ~jf[1].printed
           l1 == MarkPrinted(jf[1], doL)
           doR == config.right.all /\ ~jf[2].printed
           r1 == MarkPrinted(jf[2], doR)
           rowsL == IF doL THEN << SinkRow(config, jf[1], jf[2], TRUE, FALSE) >>
                    ELSE << >>
           rowsR == IF doR THEN << SinkRow(config, l1, jf[2], FALSE, TRUE) >>
                    ELSE << >>
       IN IF doL /\ DoOutputPanic(config, jf[1], jf[2], TRUE, FALSE) # NoPanic
          THEN /\ pc' = DoOutputPanic(config, jf[1], jf[2], TRUE, FALSE)
               /\ UNCHANGED <<jf, sink>>
          ELSE IF doR /\ DoOutputPanic(config, l1, jf[2], FALSE, TRUE) # NoPanic
          THEN /\ pc' = DoOutputPanic(config, l1, jf[2], FALSE, TRUE)
               /\ jf' = << l1, jf[2] >>
               /\ sink' = sink \o rowsL
          ELSE /\ pc' = "drain"
               /\ jf' = << l1, r1 >>
               /\ sink' = sink \o rowsL \o rowsR
    /\ UNCHANGED <<config, lines, unit, files, written>>

\* if !left.eof && left.config.all { .. } else if !right.eof &&
\* right.config.all { .. } (lib.rs:261, 266): which side is drained.
DrainTest ==
    /\ pc = "drain"
    /\ pc' = IF ~jf[1].eof /\ config.left.all THEN "drain_left"
             ELSE IF ~jf[2].eof /\ config.right.all THEN "drain_right"
             ELSE "done"
    /\ UNCHANGED <<config, lines, jf, sink, unit, files, written>>

\* One turn of while f.refill() { do_output(..) } (lib.rs:262-264, 267-269).
DrainTurn(s) ==
    LET pl == (s = 1)
        pr == (s = 2)
        m == refill(Machine(jf[s], lines[s]))
        jn == [jf EXCEPT ![s] = m.jf]
    IN /\ lines' = [lines EXCEPT ![s] = m.lines]
       /\ IF m.panic # NoPanic
          THEN pc' = m.panic /\ UNCHANGED <<jf, sink>>
          ELSE IF ~m.ret
          THEN pc' = "done" /\ jf' = jn /\ UNCHANGED sink
          ELSE IF DoOutputPanic(config, jn[1], jn[2], pl, pr) # NoPanic
          THEN /\ pc' = DoOutputPanic(config, jn[1], jn[2], pl, pr)
               /\ jf' = jn
               /\ UNCHANGED sink
          ELSE /\ pc' = pc
               /\ jf' = [jn EXCEPT ![s] = MarkPrinted(jn[s], TRUE)]
               /\ sink' = Append(sink, SinkRow(config, jn[1], jn[2], pl, pr))

DrainLeft ==
    /\ pc = "drain_left"
    /\ DrainTurn(1)
    /\ UNCHANGED <<config, unit, files, written>>

DrainRight ==
    /\ pc = "drain_right"
    /\ DrainTurn(2)
    /\ UNCHANGED <<config, unit, files, written>>

----------------------------------------------------------------------------
(* Specifications of join.                                                 *)

\* join() as written: called on a configuration and two files.
Init ==
    /\ InputsInit \/ RaggedInputsInit \/ HeaderInputsInit
    /\ jf = << NotCreated, NotCreated >>
    /\ pc = "new_left"

Next == JoinFileNew

Spec == Init /\ [][Next]_vars

\* The statements of join after the cursors are built.
MergeNext ==
    \/ ReadHeaders
    \/ FirstFill
    \/ ResolveAuto
    \/ HeaderOutput
    \/ PopulateKeys
    \/ Compare
    \/ ArmEqual
    \/ ArmLess
    \/ ArmGreater
    \/ Flush
    \/ DrainTest
    \/ DrainLeft
    \/ DrainRight

\* join() with every statement: what Spec leaves out is unreachable, since
\* JoinFileNew panics.
FullSpec == Init /\ [][JoinFileNew \/ MergeNext]_vars

\* join() from two cursors built around their resolved key specification.
MergeInit ==
    /\ InputsInit
    /\ jf = [s \in Sides |-> JoinFileStruct(SideConfig(config, s).key_fields)]
    /\ pc = "header"

MergeSpec == MergeInit /\ [][MergeNext]_vars

\* The same on files that may hold a short row.
RaggedInit ==
    /\ RaggedInputsInit
    /\ jf = [s \in Sides |-> JoinFileStruct(SideConfig(config, s).key_fields)]
    /\ pc = "header"

RaggedSpec == RaggedInit /\ [][MergeNext]_vars

\* The same with key specifications that differ in length.
ArityInit ==
    /\ ArityInputsInit
    /\ jf = [s \in Sides |-> JoinFileStruct(SideConfig(config, s).key_fields)]
    /\ pc = "header"

AritySpec == ArityInit /\ [][MergeNext]_vars

\* Side s's cursor of configuration c after first_fill on the lines ls.
Primed(c, s, ls) ==
    first_fill(Machine(JoinFileStruct(SideConfig(c, s).key_fields), ls))

\* The configurations of the GNU order with the first field as the key: the
\* four settings of the two `all` flags.
LoopConfigs ==
    {c \in Configs : c.output = GnuDefault /\ c.left.key_fields = << 0 >>}

\* The state in which join enters its merge loop (lib.rs:230) on two files
\* that hold a row: both cursors primed, an Auto order resolved.
LoopInit ==
    \E c \in LoopConfigs, f \in SortedIds \X SortedIds :
        /\ Len(f[1]) > 0 /\ Len(f[2]) > 0
        /\ LET l == Primed(c, 1, FileLines(c.left.key_fields, f[1]))
               r == Primed(c, 2, FileLines(c.right.key_fields, f[2]))
           IN /\ jf = << l.jf, r.jf >>
              /\ lines = << l.lines, r.lines >>
              /\ config = IF c.output.kind = "Auto"
                          THEN [c EXCEPT !.output = AutoOrder(l.jf, r.jf)]
                          ELSE c
        /\ files = f
        /\ written = [s \in Sides |->
                        [i \in 1..Len(f[s]) |->
                            RowFields(SideConfig(c, s).key_fields, f[s][i], i)]]
        /\ sink = << >>
        /\ unit = NoUnit
        /\ pc = "loop"

\* The merge loop, the flush and the drain loops (lib.rs:230-270).
LoopNext ==
    \/ Compare
    \/ ArmEqual
    \/ ArmLess
    \/ ArmGreater
    \/ Flush
    \/ DrainTest
    \/ DrainLeft
    \/ DrainRight

\* join from the entry of its merge loop, not suspended for ever: a single
\* thread runs join from statement to statement until it returns or panics.
LoopLiveSpec == LoopInit /\ [][LoopNext]_vars /\ WF_vars(LoopNext)

\* The same with an Explicit order that names the join field twice.
KeyTwiceInit ==
    /\ KeyTwiceInputsInit
    /\ jf = [s \in Sides |-> JoinFileStruct(SideConfig(config, s).key_fields)]
    /\ pc = "header"

KeyTwiceSpec == KeyTwiceInit /\ [][MergeNext]_vars

\* The same with the header flag set.
HeaderInit ==
    /\ HeaderInputsInit
    /\ jf = [s \in Sides |-> JoinFileStruct(SideConfig(config, s).key_fields)]
    /\ pc = "header"

HeaderSpec == HeaderInit /\ [][MergeNext]_vars

----------------------------------------------------------------------------
(* What the files hold and what the sink received.                         *)

Rows(s) == 1..Len(files[s])

\* Row i of the left file and row j of the right file have equal keys.
KeyEqual(i, j) == files[1][i] = files[2][j]

\* Row i of side s has the key of some row of the other side.
HasPartner(s, i) == \E j \in Rows(Other(s)) : files[Other(s)][j] = files[s][i]

\* The rows of side s with key id.
RowsWithKey(s, id) == {i \in Rows(s) : files[s][i] = id}

\* The sink rows that pair left row i with right row j.
MatchedAt(i, j) ==
    {n \in 1..Len(sink) :
        sink[n].left /\ sink[n].right /\ sink[n].lix = i /\ sink[n].rix = j}

\* The sink rows that hold row i of side s alone.
UnmatchedAt(s, i) ==
    {n \in 1..Len(sink) :
        IF s = 1
        THEN sink[n].left /\ ~sink[n].right /\ sink[n].lix = i
        ELSE sink[n].right /\ ~sink[n].left /\ sink[n].rix = i}

\* The sink rows that hold row i of side s together with a row of the other side.
MatchedWith(s, i) ==
    {n \in 1..Len(sink) :
        /\ sink[n].left /\ sink[n].right
        /\ (IF s = 1 THEN sink[n].lix ELSE sink[n].rix) = i}

\* join has returned or panicked.
Stopped == pc = "done" \/ Panicked

\* Both files hold a row.
BothNonEmpty == Len(files[1]) > 0 /\ Len(files[2]) > 0

----------------------------------------------------------------------------
(* C1.  When join has stopped on two sorted non-empty files, the sink      *)
(* holds exactly one matched row for every pair (l, r) of a left and a     *)
(* right row with equal keys, and none for any other pair: n left rows and *)
(* m right rows sharing a key give n * m matched rows, also for n >= 2 and *)
(* m >= 2.                                                                 *)
C1_MatchedRowsAreEqualKeyPairs ==
    (Stopped /\ BothNonEmpty) =>
        \A i \in Rows(1), j \in Rows(2) :
            Cardinality(MatchedAt(i, j)) = IF KeyEqual(i, j) THEN 1 ELSE 0

\* No key is held by two or more rows on both sides.
NoManyToMany ==
    \A id \in KeyIds :
        Cardinality(RowsWithKey(1, id)) <= 1 \/ Cardinality(RowsWithKey(2, id)) <= 1

\* C1 on the files without a many-to-many key, once join has returned.
C1_WithoutManyToMany ==
    (pc = "done" /\ NoManyToMany) =>
        \A i \in Rows(1), j \in Rows(2) :
            Cardinality(MatchedAt(i, j)) = IF KeyEqual(i, j) THEN 1 ELSE 0

(* C2.  When join has stopped on two sorted non-empty files, a key held by *)
(* exactly one row of one side and by m >= 1 rows of the other side has    *)
(* exactly m matched rows in the sink: the single row paired once with     *)
(* each of the m rows, and no other matched row holds any of these rows.   *)
C2_FanOut ==
    (Stopped /\ BothNonEmpty) =>
        \A id \in KeyIds :
            LET L == RowsWithKey(1, id)
                R == RowsWithKey(2, id)
            IN ((Cardinality(L) = 1 /\ R # {}) \/ (Cardinality(R) = 1 /\ L # {})) =>
                  /\ \A i \in L, j \in R : Cardinality(MatchedAt(i, j)) = 1
                  /\ \A n \in 1..Len(sink) :
                        (sink[n].left /\ sink[n].right) =>
                            (sink[n].lix \in L <=> sink[n].rix \in R)

\* C2 once join has returned.
C2_FanOutWhenDone ==
    pc = "done" =>
        \A id \in KeyIds :
            LET L == RowsWithKey(1, id)
                R == RowsWithKey(2, id)
            IN ((Cardinality(L) = 1 /\ R # {}) \/ (Cardinality(R) = 1 /\ L # {})) =>
                  /\ \A i \in L, j \in R : Cardinality(MatchedAt(i, j)) = 1
                  /\ \A n \in 1..Len(sink) :
                        (sink[n].left /\ sink[n].right) =>
                            (sink[n].lix \in L <=> sink[n].rix \in R)

(* C3.  A sink row holds one side alone only if that side's `all` flag is  *)
(* set; and when join has stopped on two non-empty sorted files, every row *)
(* of a side whose flag is set and whose key no row of the other side has  *)
(* is in the sink as an unmatched row.                                     *)
C3_UnmatchedIffAll ==
    /\ \A n \in 1..Len(sink) :
          /\ (sink[n].left /\ ~sink[n].right) => config.left.all
          /\ (sink[n].right /\ ~sink[n].left) => config.right.all
    /\ (Stopped /\ BothNonEmpty) =>
          \A s \in Sides : \A i \in Rows(s) :
              (SideConfig(config, s).all /\ ~HasPartner(s, i)) =>
                  UnmatchedAt(s, i) # {}

\* C3 once join has returned.
C3_UnmatchedIffAllWhenDone ==
    /\ \A n \in 1..Len(sink) :
          /\ (sink[n].left /\ ~sink[n].right) => config.left.all
          /\ (sink[n].right /\ ~sink[n].left) => config.right.all
    /\ pc = "done" =>
          \A s \in Sides : \A i \in Rows(s) :
              (SideConfig(config, s).all /\ ~HasPartner(s, i)) =>
                  UnmatchedAt(s, i) # {}

(* C4.  No row is in the sink as an unmatched row more than once, and no   *)
(* row is in the sink both in a matched row and as an unmatched row.       *)
C4_NoReEmission ==
    \A s \in Sides : \A i \in Rows(s) :
        /\ Cardinality(UnmatchedAt(s, i)) <= 1
        /\ MatchedWith(s, i) = {} \/ UnmatchedAt(s, i) = {}

\* The flush was reached with a side's `all` flag set and its current row
\* already printed, in a matched row or as an unmatched row, and the row
\* was not emitted again.
C4_Witness ==
    /\ pc = "drain"
    /\ \E s \in Sides :
          /\ SideConfig(config, s).all
          /\ MatchedWith(s, jf[s].rowIx) # {}
          /\ UnmatchedAt(s, jf[s].rowIx) = {}
    /\ \E s \in Sides : \E i \in Rows(s) : Cardinality(UnmatchedAt(s, i)) = 1

(* C5.  With both `all` flags set, when join has stopped on two non-empty  *)
(* sorted files the sink holds as many rows as there are pairs of equal    *)
(* keys, plus the left rows without partner, plus the right rows without   *)
(* partner.                                                                *)
C5_FullOuterCount ==
    (Stopped /\ BothNonEmpty /\ config.left.all /\ config.right.all) =>
        Len(sink) =
            Cardinality({p \in Rows(1) \X Rows(2) : KeyEqual(p[1], p[2])})
            + Cardinality({i \in Rows(1) : ~HasPartner(1, i)})
            + Cardinality({j \in Rows(2) : ~HasPartner(2, j)})

\* C5 on the files without a many-to-many key, once join has returned.
C5_WithoutManyToMany ==
    (pc = "done" /\ NoManyToMany /\ config.left.all /\ config.right.all) =>
        Len(sink) =
            Cardinality({p \in Rows(1) \X Rows(2) : KeyEqual(p[1], p[2])})
            + Cardinality({i \in Rows(1) : ~HasPartner(1, i)})
            + Cardinality({j \in Rows(2) : ~HasPartner(2, j)})

\* join returns whenever both files hold a row.
MergeNeverPanics == BothNonEmpty => ~Panicked


\* The column of sink row cols that item k of an Explicit order fills, the
\* join field filling `arity` columns.
RECURSIVE ColumnOf(_, _, _)
ColumnOf(items, k, arity) ==
    IF k = 1 THEN 1
    ELSE ColumnOf(items, k - 1, arity)
         + (IF items[k - 1].t = "JoinField" THEN arity ELSE 1)

\* Field `field` (0-indexed) of row ix of side s's file; the empty string
\* past the row's last field.
FileValue(s, ix, field) ==
    LET fs == RowFields(SideConfig(config, s).key_fields, files[s][ix], ix) IN
    IF field < Len(fs) THEN fs[field + 1] ELSE << >>

(* C6.  In every sink row under an Explicit order (given, or resolved from *)
(* Auto), the column of a FileField of file F holds side F's missing value *)
(* when side F is absent from the row, and the value of that field of the  *)
(* row of file F the sink row holds when side F is present.                *)
C6_FileFieldColumns ==
    config.output.kind = "Explicit" =>
        \A n \in 1..Len(sink) : \A k \in 1..Len(config.output.fields) :
            LET item == config.output.fields[k]
                present == IF item.file = 1 THEN sink[n].left ELSE sink[n].right
                ix == IF item.file = 1 THEN sink[n].lix ELSE sink[n].rix
                col == sink[n].cols[ColumnOf(config.output.fields, k,
                                             Len(config.left.key_fields))]
            IN item.t = "FileField" =>
                  col = IF present
                        THEN FileValue(item.file, ix, item.field)
                        ELSE SideConfig(config, item.file).missing

\* A sink row with one side absent, under an Explicit order that names a
\* field of the absent side and a field of the present side.
C6_Witness ==
    /\ config.output.kind = "Explicit"
    /\ \E n \in 1..Len(sink) :
          /\ sink[n].left /\ ~sink[n].right
          /\ \E k1, k2 \in 1..Len(config.output.fields) :
                /\ config.output.fields[k1] = FileField(1, 1)
                /\ config.output.fields[k2] = FileField(2, 1)
                /\ sink[n].cols[ColumnOf(config.output.fields, k2,
                                         Len(config.left.key_fields))]
                      = config.right.missing
                /\ sink[n].cols[ColumnOf(config.output.fields, k1,
                                         Len(config.left.key_fields))]
                      = FileValue(1, sink[n].lix, 1)

----------------------------------------------------------------------------
(* UnitSpec: SplitLine::new, clone and compare_keys applied to bounded     *)
(* inputs, and the methods of a JoinFile applied to a cursor on a bounded  *)
(* file.  A line is given as the fields it was written from (flds),        *)
(* joined by tabs; a field is one of UnitStrs.                             *)

UnitStrs == { << >>, << 97 >>, << 98 >>, << 97, 98 >> }

UnitFieldLists == UNION { [1..n -> UnitStrs] : n \in 0..MaxFields }

UnitKeySpecs == { << >>, << 0 >>, << 1 >>, << 0, 2 >>, << 2, 0 >>, << 1, 1 >> }

\* The key values of a record: one per key field, at least one.
UnitKeyValues == UNION { [1..n -> UnitStrs] : n \in 1..MaxArity }

UnitInit ==
    /\ unit = [op |-> "start"]
    /\ config = [kind |-> "unit"]
    /\ lines = << << >>, << >> >>
    /\ jf = << NotCreated, NotCreated >>
    /\ pc = "unit"
    /\ sink = << >>
    /\ files = << << >>, << >> >>
    /\ written = << << >>, << >> >>

\* SplitLine::new(line, '\t', key_fields)
UnitNew ==
    /\ unit.op = "start"
    /\ \E flds \in UnitFieldLists, ks \in UnitKeySpecs, base \in HeapBases :
          unit' = IF SplitLineNewPanics(ks)
                  THEN [op |-> "new_panicked", flds |-> flds, key_fields |-> ks]
                  ELSE [op |-> "new", flds |-> flds, key_fields |-> ks,
                        sl |-> SplitLineNew(StrJoin(flds, << TAB >>), TAB, ks, base)]
    /\ UNCHANGED <<config, lines, jf, pc, sink, files, written>>

\* sl.clone(), the clone's line being allocated while sl is alive.
UnitClone ==
    /\ unit.op = "new"
    /\ \E newbase \in HeapBases \ {unit.sl.base} :
          unit' = [unit EXCEPT !.op = "clone"]
                  @@ [cl |-> SplitLineClone(unit.sl, newbase)]
    /\ UNCHANGED <<config, lines, jf, pc, sink, files, written>>

\* compare_keys(&left, &right)
UnitCompare ==
    /\ unit.op = "start"
    /\ \E left \in UnitKeyValues, right \in UnitKeyValues :
          unit' = [op |-> "compare", left |-> left, right |-> right,
                   result |-> compare_keys(left, right)]
    /\ UNCHANGED <<config, lines, jf, pc, sink, files, written>>

\* The files a cursor is opened on: at most MaxRows rows, each written from
\* one or two fields.
CursorRows == { << << 97 >> >>, << << 97 >>, << 98 >> >> }

CursorFiles == UNION { [1..n -> CursorRows] : n \in 0..MaxRows }

\* A JoinFile with its key list installed, on a file whose rows were
\* written with the configured delimiter delim.  seen is a history field:
\* the positions of the rows that became current, oldest first.
UnitCursor ==
    /\ unit.op = "start"
    /\ \E rows \in CursorFiles, delim \in {TAB, COMMA}, ks \in KeySpecs :
          unit' = [op |-> "cursor", rows |-> rows, delim |-> delim,
                   seen |-> << >>,
                   m |-> Machine(JoinFileStruct(ks),
                                 [i \in 1..Len(rows) |->
                                     StrJoin(rows[i], << delim >>)])]
    /\ UNCHANGED <<config, lines, jf, pc, sink, files, written>>

\* cursor.first_fill()
UnitFirstFill ==
    /\ unit.op = "cursor"
    /\ LET m == first_fill(unit.m) IN
       unit' = [unit EXCEPT !.op = "primed", !.m = m,
                            !.seen = IF m.ret THEN << m.jf.rowIx >> ELSE << >>]
    /\ UNCHANGED <<config, lines, jf, pc, sink, files, written>>

\* cursor.refill(); before is the cursor the method was called on.
UnitRefill ==
    /\ unit.op \in {"primed", "refilled", "printed"}
    /\ LET m == refill(unit.m) IN
       unit' = [op |-> "refilled", rows |-> unit.rows, delim |-> unit.delim,
                seen |-> IF unit.m.jf.eof THEN unit.seen
                         ELSE Append(unit.seen, m.jf.rowIx),
                m |-> m, before |-> unit.m]
    /\ UNCHANGED <<config, lines, jf, pc, sink, files, written>>

\* do_output prints the cursor's row: cursor.printed = true (lib.rs:320-325).
UnitMarkPrinted ==
    /\ unit.op \in {"primed", "refilled"}
    /\ unit.m.jf.rowIx > 0
    /\ ~unit.m.jf.printed
    /\ unit' = [op |-> "printed", rows |-> unit.rows, delim |-> unit.delim,
                seen |-> unit.seen,
                m |-> [unit.m EXCEPT !.jf = MarkPrinted(unit.m.jf, TRUE)]]
    /\ UNCHANGED <<config, lines, jf, pc, sink, files, written>>

UnitNext ==
    \/ UnitNew
    \/ UnitClone
    \/ UnitCompare
    \/ UnitCursor
    \/ UnitFirstFill
    \/ UnitRefill
    \/ UnitMarkPrinted

UnitSpec == UnitInit /\ [][UnitNext]_vars

\* The first index at which two key-value sequences differ, 0 if none.
FirstDifference(left, right) ==
    LET common == IF Len(left) < Len(right) THEN Len(left) ELSE Len(right)
        D == {i \in 1..common : left[i] # right[i]}
    IN IF D = {} THEN 0 ELSE CHOOSE i \in D : \A m \in D : i <= m

(* C7.  compare_keys returns Equal exactly when the two key-value          *)
(* sequences are equal element by element, and otherwise the byte order of *)
(* the first pair that differs.                                            *)
C7_CompareKeys ==
    unit.op = "compare" =>
        LET d == FirstDifference(unit.left, unit.right) IN
        /\ unit.result = "Equal" <=> unit.left = unit.right
        /\ d # 0 => unit.result = StrCmp(unit.left[d], unit.right[d])

\* C7 for two sequences of the same length.
C7_CompareKeysSameArity ==
    (unit.op = "compare" /\ Len(unit.left) = Len(unit.right)) =>
        LET d == FirstDifference(unit.left, unit.right) IN
        /\ unit.result = "Equal" <=> unit.left = unit.right
        /\ d # 0 => unit.result = StrCmp(unit.left[d], unit.right[d])

\* The number of delimiters in a line.
Delimiters(line) == Cardinality({i \in 1..Len(line) : line[i] = TAB})

(* C8.  SplitLine::new on the empty line yields no field; on a non-empty   *)
(* line with k delimiters it yields k + 1 fields.                          *)
C8_FieldCount ==
    unit.op = "new" =>
        NumFields(unit.sl) = IF unit.sl.line = << >> THEN 0
                             ELSE Delimiters(unit.sl.line) + 1

\* C8 for the non-empty lines.
C8_FieldCountNonEmpty ==
    (unit.op = "new" /\ unit.sl.line # << >>) =>
        NumFields(unit.sl) = Delimiters(unit.sl.line) + 1

\* The 0-based indices of a line of n fields that key list ks does not hold.
NonKeyIndices(ks, n) == {i \in 0..(n - 1) : \A k \in 1..Len(ks) : ks[k] # i}

\* The j-th smallest element of a set of naturals.
Nth(S, j) == CHOOSE i \in S : Cardinality({m \in S : m < i}) = j - 1

(* C9.  For a line written from one or more fields whose key indices are   *)
(* all in range, keys() is the fields at the key indices in key list       *)
(* order, fields_except_keys() is the fields at the other indices in line  *)
(* order, and the key indices and the other indices together are all the   *)
(* indices of the line.                                                    *)
C9_KeysAndOthers ==
    (unit.op = "new" /\ Len(unit.flds) >= 1 /\ ~KeysPanics(unit.sl)) =>
        LET ks == unit.key_fields
            NK == NonKeyIndices(ks, Len(unit.flds))
            others == FieldsExceptKeys(unit.sl)
        IN /\ Keys(unit.sl) = [k \in 1..Len(ks) |-> unit.flds[ks[k] + 1]]
           /\ Len(others) = Cardinality(NK)
           /\ \A j \in 1..Len(others) : others[j] = unit.flds[Nth(NK, j) + 1]
           /\ Len(others) + Cardinality({ks[k] : k \in 1..Len(ks)})
                 = NumFields(unit.sl)

\* A line of three fields split under a two-field key list given out of
\* line order.
C9_Witness ==
    /\ unit.op = "new"
    /\ unit.key_fields = << 2, 0 >>
    /\ unit.flds = << << 97 >>, << 98 >>, << 97, 98 >> >>
    /\ Keys(unit.sl) = << << 97, 98 >>, << 97 >> >>
    /\ FieldsExceptKeys(unit.sl) = << << 98 >> >>

(* C10.  A clone of a SplitLine has the same num_fields(), the same        *)
(* field(i) for every i, the same keys() and the same                      *)
(* fields_except_keys() as the original, and each of its field pointers    *)
(* points into the clone's own line buffer.                                *)
C10_CloneEqual ==
    unit.op = "clone" =>
        /\ NumFields(unit.cl) = NumFields(unit.sl)
        /\ \A i \in 0..(NumFields(unit.sl) - 1) :
              /\ Field(unit.cl, i) = Field(unit.sl, i)
              /\ InStorage(unit.cl, unit.cl.fields[i + 1])
        /\ Len(unit.flds) >= 1 =>
              \A i \in 0..(Len(unit.flds) - 1) : Field(unit.cl, i) = unit.flds[i + 1]
        /\ KeysPanics(unit.cl) = KeysPanics(unit.sl)
        /\ ~KeysPanics(unit.sl) => Keys(unit.cl) = Keys(unit.sl)
        /\ FieldsExceptKeys(unit.cl) = FieldsExceptKeys(unit.sl)

\* A clone, at another address, of a line of three non-empty fields.
C10_Witness ==
    /\ unit.op = "clone"
    /\ unit.cl.base # unit.sl.base
    /\ NumFields(unit.cl) = 3
    /\ \A i \in 0..2 : Field(unit.cl, i) # << >>
    /\ Keys(unit.cl) = << Field(unit.sl, 1) >>

----------------------------------------------------------------------------
(* C11.  When join has stopped and a file holds no row, join has panicked  *)
(* with "No input found" for that side (the left side's when the left file *)
(* holds no row, the right side's when only the right file holds none) and *)
(* the sink has received no line, header or data.                          *)
C11_EmptyInputIsFatal ==
    Stopped =>
        /\ Len(files[1]) = 0 => (pc = PanicNoInputLeft /\ sink = << >>)
        /\ (Len(files[1]) > 0 /\ Len(files[2]) = 0) =>
              (pc = PanicNoInputRight /\ sink = << >>)

----------------------------------------------------------------------------
\* A sink row that is a header line.
IsHeader(r) == ~r.left /\ ~r.right

HeaderLinesInSink == {n \in 1..Len(sink) : IsHeader(sink[n])}

(* C12.  With the header flag set, the sink never holds more than one      *)
(* header line nor a data row before it, and when join has stopped on two  *)
(* files that each hold a header line and a row, the first line of the     *)
(* sink is the header line: under the GnuDefault, the Auto and the         *)
(* Explicit orders.                                                        *)
C12_HeaderOnceBeforeData ==
    config.has_header =>
        /\ Cardinality(HeaderLinesInSink) <= 1
        /\ \A n \in HeaderLinesInSink : n = 1
        /\ (Stopped /\ BothNonEmpty) => HeaderLinesInSink = {1}

\* Every field the order names is a field of its file's header line.
OrderWithinHeader ==
    /\ config.given.kind # "GnuDefault"
    /\ \A k \in 1..Len(config.given.fields) :
          LET item == config.given.fields[k] IN
          item.t = "FileField" =>
              item.field < Len(HeaderFields(SideConfig(config, item.file).key_fields,
                                            item.file))

\* C12 for the Auto order and the Explicit orders within the header; the
\* header line then holds the names of the projected fields.
C12_WithinHeader ==
    (config.has_header /\ OrderWithinHeader) =>
        /\ Cardinality(HeaderLinesInSink) <= 1
        /\ \A n \in HeaderLinesInSink : n = 1
        /\ (Stopped /\ BothNonEmpty) => HeaderLinesInSink = {1}
        /\ \A n \in HeaderLinesInSink :
              Len(sink[n].cols) =
                  (Len(config.output.fields) - 1) + Len(config.left.key_fields)

----------------------------------------------------------------------------
\* The FileFields of the fields of the first row of a file that are not
\* key fields, in line order.
NonKeyFileFields(file) ==
    LET NK == NonKeyIndices(SideConfig(config, file).key_fields,
                            Len(written[file][1]))
    IN [j \in 1..Cardinality(NK) |-> FileField(file, Nth(NK, j))]

\* The positions of join after the Auto order is resolved (lib.rs:184-272).
AfterAuto ==
    {"header_out", "keys", "loop", "Equal", "Less", "Greater", "flush",
     "drain", "drain_left", "drain_right", "done"}

\* Two files of one row each, the row holding one field, the same key.
OneFieldPair ==
    /\ config.left.key_fields = << 0 >>
    /\ config.right.key_fields = << 0 >>
    /\ Len(files[1]) = 1 /\ Len(files[2]) = 1
    /\ files[1][1] = files[2][1]
    /\ Len(written[1][1]) = 1 /\ Len(written[2][1]) = 1

(* C13.  When join was called with the Auto order, past the resolution the *)
(* order is Explicit: the join field, then the non-key fields of the first *)
(* row of file 1 in order, then those of the first row of file 2; and when *)
(* join has stopped on two files of one row of one field, the same key,    *)
(* the sink holds one row whose only column is the key.                    *)
C13_AutoProjection ==
    config.given.kind = "Auto" =>
        /\ pc \in AfterAuto =>
              config.output = Explicit(<< JoinField >> \o NonKeyFileFields(1)
                                                       \o NonKeyFileFields(2))
        /\ (Stopped /\ OneFieldPair) =>
              /\ Len(sink) = 1
              /\ sink[1].cols = << KeyPart(1, files[1][1], 1) >>

----------------------------------------------------------------------------
\* The fields of a SplitLine, as strings.
FieldsOf(sl) == [i \in 1..NumFields(sl) |-> Field(sl, i - 1)]

\* The cursor of the unit specification was primed.
CursorPrimed == unit.op \in {"primed", "refilled", "printed"}

(* C14.  The row and the lookahead row of a cursor hold the fields their   *)
(* lines were written from, whichever delimiter was configured and the     *)
(* file was written with: tab or comma.                                    *)
C14_SplitOnConfiguredDelimiter ==
    CursorPrimed =>
        /\ unit.m.jf.rowIx > 0 =>
              FieldsOf(unit.m.jf.row) = unit.rows[unit.m.jf.rowIx]
        /\ unit.m.jf.nextIx > 0 =>
              FieldsOf(unit.m.jf.next_row) = unit.rows[unit.m.jf.nextIx]

\* C14 for the files written with tabs.
C14_SplitOnTab ==
    (CursorPrimed /\ unit.delim = TAB) =>
        /\ unit.m.jf.rowIx > 0 =>
              FieldsOf(unit.m.jf.row) = unit.rows[unit.m.jf.rowIx]
        /\ unit.m.jf.nextIx > 0 =>
              FieldsOf(unit.m.jf.next_row) = unit.rows[unit.m.jf.nextIx]

----------------------------------------------------------------------------
(* C15.  refill called on a cursor whose eof flag is set returns false,    *)
(* leaves row, next_row, printed and eof as they were and reads no line.   *)
C15_RefillAtEofIsNoOp ==
    (unit.op = "refilled" /\ unit.before.jf.eof) =>
        /\ unit.m.ret = FALSE
        /\ unit.m.jf.row = unit.before.jf.row
        /\ unit.m.jf.next_row = unit.before.jf.next_row
        /\ unit.m.jf.printed = unit.before.jf.printed
        /\ unit.m.jf.eof
        /\ unit.m.lines = unit.before.lines
        /\ unit.m.jf.nread = unit.before.jf.nread

\* refill was called on an exhausted cursor whose row, the second of its
\* file, was printed, and returned false.
C15_Witness ==
    /\ unit.op = "refilled"
    /\ unit.before.jf.eof
    /\ unit.before.jf.printed
    /\ unit.before.jf.rowIx = 2
    /\ ~unit.m.ret
    /\ unit.m.jf.printed

(* C16.  refill called on a cursor whose eof flag is not set returns true, *)
(* also when its read finds the end of the input, makes the lookahead row  *)
(* the current row and clears printed.  After first_fill and any number of *)
(* refills the rows that became current are the first rows of the file, in *)
(* file order, each once; while eof is not set the lookahead row is the    *)
(* row after the current one; and once eof is set every row of the file    *)
(* has been current and the current row is the last one.  first_fill       *)
(* returns true exactly when the file holds a row.                         *)
C16_RefillRotates ==
    /\ (unit.op = "refilled" /\ ~unit.before.jf.eof) =>
          /\ unit.m.ret = TRUE
          /\ unit.m.jf.row.line = unit.before.jf.next_row.line
          /\ FieldsOf(unit.m.jf.row) = FieldsOf(unit.before.jf.next_row)
          /\ unit.m.jf.rowIx = unit.before.jf.nextIx
          /\ ~unit.m.jf.printed
    /\ CursorPrimed =>
          /\ unit.seen = [i \in 1..Len(unit.seen) |-> i]
          /\ Len(unit.seen) <= Len(unit.rows)
          /\ unit.m.jf.rowIx = Len(unit.seen)
          /\ ~unit.m.jf.eof => unit.m.jf.nextIx = unit.m.jf.rowIx + 1
          /\ unit.m.jf.eof => unit.m.jf.rowIx = Len(unit.rows)
    /\ unit.op = "primed" => (unit.m.ret <=> Len(unit.rows) > 0)

\* refill was called on a cursor whose row was printed and whose lookahead
\* row was the last of a file of two or more rows: its read found the end
\* of the input, and it returned true with the last row current.
C16_Witness ==
    /\ unit.op = "refilled"
    /\ ~unit.before.jf.eof
    /\ unit.before.jf.printed
    /\ unit.m.jf.eof
    /\ unit.m.ret
    /\ Len(unit.rows) >= 2
    /\ unit.m.jf.rowIx = Len(unit.rows)
    /\ unit.delim = TAB
    /\ FieldsOf(unit.m.jf.row) = << << 97 >>, << 98 >> >>

----------------------------------------------------------------------------
(* C17.  join never extracts the keys of a row that lacks one of its key   *)
(* fields, neither of a current row in the merge loop nor of a lookahead   *)
(* row in smart_refill, and never fails with an index out of bounds: also  *)
(* on a file that holds a row with fewer fields than the largest key index *)
(* needs.                                                                  *)
C17_KeysBoundsChecked ==
    /\ pc # PanicIndex
    /\ pc = "loop" => (~KeysPanics(jf[1].row) /\ ~KeysPanics(jf[2].row))
    /\ (pc = "Equal" /\ ~jf[1].eof /\ ~jf[2].eof) =>
          (~KeysPanics(jf[1].next_row) /\ ~KeysPanics(jf[2].next_row))

\* Every row of both files holds all its key fields.
KeysInRange ==
    \A s \in Sides : \A i \in Rows(s) :
        \A k \in 1..Len(SideConfig(config, s).key_fields) :
            SideConfig(config, s).key_fields[k] < Len(written[s][i])

\* C17 on the files whose rows hold all their key fields.
C17_WhenKeysInRange == KeysInRange => C17_KeysBoundsChecked

\* Row ix of side s's file lacks field `field`.
ShortFor(s, ix, field) == field >= Len(written[s][ix])

(* C18.  In every sink row under an Explicit order, the column of a        *)
(* FileField whose side is present and whose row lacks that field is the   *)
(* empty string, and the row holds one column per FileField and per key    *)
(* field; and join does not panic on files whose rows hold all their key   *)
(* fields, whichever other fields they lack.                               *)
C18_ShortRowRendersEmpty ==
    /\ config.output.kind = "Explicit" =>
          \A n \in 1..Len(sink) :
              /\ Len(sink[n].cols) =
                    ColumnOf(config.output.fields, Len(config.output.fields) + 1,
                             Len(config.left.key_fields)) - 1
              /\ \A k \in 1..Len(config.output.fields) :
                    LET item == config.output.fields[k]
                        present == IF item.file = 1 THEN sink[n].left
                                   ELSE sink[n].right
                        ix == IF item.file = 1 THEN sink[n].lix ELSE sink[n].rix
                    IN (item.t = "FileField" /\ present
                        /\ ShortFor(item.file, ix, item.field)) =>
                          sink[n].cols[ColumnOf(config.output.fields, k,
                                                Len(config.left.key_fields))]
                             = << >>
    /\ (KeysInRange /\ BothNonEmpty) => ~Panicked

\* join has returned after it emitted a left row that lacks field 1, named
\* by the order, as an empty column, and then emitted another row.
C18_Witness ==
    /\ pc = "done"
    /\ config.given.kind = "Explicit"
    /\ \E n \in 1..(Len(sink) - 1) : \E k \in 1..Len(config.output.fields) :
          /\ config.output.fields[k] = FileField(1, 1)
          /\ sink[n].left
          /\ ShortFor(1, sink[n].lix, 1)
          /\ sink[n].cols[ColumnOf(config.output.fields, k,
                                   Len(config.left.key_fields))] = << >>

----------------------------------------------------------------------------
\* The positions of join in and after the merge loop (lib.rs:230-272).
InMergeLoop ==
    {"loop", "Equal", "Less", "Greater", "flush", "drain", "drain_left",
     "drain_right", "done"}

(* C19.  When the key specifications of the two sides differ in length,    *)
(* join stops before the merge loop compares any rows: it never reaches    *)
(* the loop, and so compare_keys never finds Equal two key sequences of    *)
(* different lengths.                                                      *)
C19_ArityMismatchRejected ==
    Len(config.left.key_fields) # Len(config.right.key_fields) =>
        pc \notin InMergeLoop

(* C20.  join never panics on an empty key list, and every row and         *)
(* lookahead row a cursor holds, from its creation on, carries the key     *)
(* specification of its side, of one index or more.                        *)
C20_KeySpecInstalledFirst ==
    /\ pc # PanicNoKeys
    /\ \A s \in Sides :
          jf[s] # NotCreated =>
              /\ Len(jf[s].row.key_fields) >= 1
              /\ jf[s].row.key_fields = SideConfig(config, s).key_fields
              /\ jf[s].next_row.key_fields = SideConfig(config, s).key_fields

----------------------------------------------------------------------------
\* The key values of row ix of side s's file, in key list order.
KeyValues(s, ix) ==
    [k \in 1..Len(SideConfig(config, s).key_fields) |->
        written[s][ix][SideConfig(config, s).key_fields[k] + 1]]

\* The key values a sink row is to show: the left row's when the left side
\* is present, the right row's otherwise.
KeyValuesOf(r) == IF r.left THEN KeyValues(1, r.lix) ELSE KeyValues(2, r.rix)

\* The columns of a sink row that item k of the order fills, the join field
\* filling one column per key field.
ColumnsOfItem(r, k) ==
    LET arity == Len(config.left.key_fields)
        from == ColumnOf(config.output.fields, k, arity)
        width == IF config.output.fields[k].t = "JoinField" THEN arity ELSE 1
    IN SubSeq(r.cols, from, from + width - 1)

(* C21.  In every sink row under an Explicit order, every JoinField of the *)
(* order fills one column per key field with the key values of the present *)
(* side, the left side's when both are present, in key list order: also    *)
(* the second JoinField of an order that names it twice.                   *)
C21_EveryJoinFieldRendersKeys ==
    config.output.kind = "Explicit" =>
        \A n \in 1..Len(sink) :
            /\ Len(sink[n].cols) =
                  ColumnOf(config.output.fields, Len(config.output.fields) + 1,
                           Len(config.left.key_fields)) - 1
            /\ \A k \in 1..Len(config.output.fields) :
                  config.output.fields[k].t = "JoinField" =>
                      ColumnsOfItem(sink[n], k) = KeyValuesOf(sink[n])

\* The first JoinField of an order renders the key values.
C21_FirstJoinField ==
    config.output.kind = "Explicit" =>
        \A n \in 1..Len(sink) :
            \A k \in 1..Len(config.output.fields) :
                (/\ config.output.fields[k].t = "JoinField"
                 /\ \A h \in 1..(k - 1) : config.output.fields[h].t # "JoinField") =>
                    ColumnsOfItem(sink[n], k) = KeyValuesOf(sink[n])

----------------------------------------------------------------------------
\* Side s's cursor moves to the next record of its file in the step.
Advances(s) == jf'[s].rowIx = jf[s].rowIx + 1

\* Side s's cursor stays on its record in the step.
Stays(s) == jf'[s].rowIx = jf[s].rowIx

\* One arm of the merge loop: the loop goes on with a cursor moved to its
\* next record and none moved further, or it ends with both cursors where
\* they were and the cursor whose refill decided, exhausted.
MergeIteration ==
    pc \in {"Equal", "Less", "Greater"} =>
        \/ /\ pc' = "loop"
           /\ \E s \in Sides : Advances(s)
           /\ \A s \in Sides : Advances(s) \/ Stays(s)
        \/ /\ pc' = "flush"
           /\ \A s \in Sides : Stays(s)
           /\ pc = "Less" => jf[1].eof
           /\ pc = "Greater" => jf[2].eof
           /\ pc = "Equal" => jf[1].eof /\ jf[2].eof
        \/ pc' \in Panics

\* One turn of the drain loop of side s: it goes on with the cursor moved
\* to its next record, or it ends with the cursor exhausted.
DrainIteration(s) ==
    pc = (IF s = 1 THEN "drain_left" ELSE "drain_right") =>
        \/ pc' = pc /\ Advances(s) /\ Stays(Other(s))
        \/ pc' = "done" /\ jf[s].eof /\ \A t \in Sides : Stays(t)
        \/ pc' \in Panics

\* MergeSpec enters the merge loop in the states LoopInit describes.
LoopEntryIsLoopInit ==
    (pc = "loop" /\ jf[1].rowIx = 1 /\ jf[2].rowIx = 1 /\ sink = << >>) =>
        LET l == Primed(config, 1, FileLines(config.left.key_fields, files[1]))
            r == Primed(config, 2, FileLines(config.right.key_fields, files[2]))
        IN /\ BothNonEmpty
           /\ jf = << l.jf, r.jf >>
           /\ lines = << l.lines, r.lines >>
           /\ config.output = IF config.given.kind = "Auto"
                               THEN AutoOrder(l.jf, r.jf)
                               ELSE config.given

(* C22.  On finite files join ends: every iteration of the merge loop      *)
(* moves a cursor to its next record or ends the loop, the loop ends only  *)
(* on a refill of an exhausted cursor, every turn of the drain loop moves  *)
(* the drained cursor or ends on its exhaustion, and join reaches its      *)
(* return.                                                                 *)
C22_JoinTerminates ==
    /\ [][MergeIteration /\ DrainIteration(1) /\ DrainIteration(2)]_vars
    /\ <>Stopped

\* join has returned after its merge loop ended on an exhausted cursor and
\* its drain loop read the two rows the left file still held.
C22_Witness ==
    /\ pc = "done"
    /\ Len(files[1]) = MaxRows
    /\ Len(files[2]) = 1
    /\ config.left.all
    /\ jf[1].eof /\ jf[2].eof
    /\ jf[1].rowIx = MaxRows
    /\ \E n \in 1..Len(sink) : sink[n].left /\ ~sink[n].right /\ sink[n].lix = MaxRows

----------------------------------------------------------------------------
\* The sink rows that hold row i of side s, alone or with a row of the
\* other side.
HeldAt(s, i) ==
    {n \in 1..Len(sink) :
        IF s = 1 THEN sink[n].left /\ sink[n].lix = i
                 ELSE sink[n].right /\ sink[n].rix = i}

\* Both sides' `all` flags are set.
BothAll == config.left.all /\ config.right.all

(* C23.  When join has stopped on two non-empty sorted files with both     *)
(* sides' `all` flags set, every row of either file is held by some row of *)
(* the sink.                                                               *)
C23_NoRowDropped ==
    (Stopped /\ BothNonEmpty /\ BothAll) =>
        \A s \in Sides : \A i \in Rows(s) : HeldAt(s, i) # {}

\* C23 once join has returned.
C23_NoRowDroppedWhenDone ==
    (pc = "done" /\ BothAll) =>
        \A s \in Sides : \A i \in Rows(s) : HeldAt(s, i) # {}

\* The rows held so far are those the cursors have left behind: with both
\* flags set a cursor moves on only from a row that was printed.
C23_RowsBehindCursorHeld ==
    (BothAll /\ pc \in {"loop", "Equal", "Less", "Greater", "flush", "drain",
                        "drain_left", "drain_right", "done"}) =>
        \A s \in Sides : \A i \in Rows(s) :
            i < jf[s].rowIx => HeldAt(s, i) # {}

====
